---------------------------- MODULE Spec2Model ----------------------------
(***************************************************************************)
(* A model of the scheduling subsystem of GoodMorningBot (src/bot.py):     *)
(* the /schedule conversation, the job queue that holds the greeting jobs  *)
(* and the countdown tickets, the /list command with its per-second        *)
(* countdown, and the reply-based cancel.                                  *)
(*                                                                         *)
(* One user talks to the bot in the chats of Chats.  A conversation is     *)
(* keyed by (chat, user), user_data by the user alone, and the job queue   *)
(* is one per process.  Time is the integer clock `now` (seconds).         *)
(*                                                                         *)
(* The job queue is python-telegram-bot's JobQueue (v13, on APScheduler).  *)
(* What the model takes from the library is stated where it is used:       *)
(* run_repeating, schedule_removal, jobs, get_jobs_by_name and the         *)
(* dispatch rules of ConversationHandler.                                  *)
(***************************************************************************)
EXTENDS Integers, Sequences, FiniteSets, TLC

(***************************************************************************)
(* Bounds of the model.                                                    *)
(***************************************************************************)
MaxTime == 2          \* Spec: the clock runs from 0 to MaxTime
MaxJobs == 1          \* Spec: greeting jobs registered in one behaviour
RegistryTime == 3     \* SpecRegistry: the clock runs from 0 to RegistryTime
RegistryJobs == 2     \* SpecRegistry: greeting jobs registered
RegistryTickets == 1  \* SpecRegistry: detail messages sent, each with a ticket
CountdownTickets == 1 \* SpecCountdown: detail messages sent, each with a ticket
ListingTime == 2      \* SpecListing: the clock runs from 0 to ListingTime
ListingJobs == 2      \* SpecListing: greeting jobs registered
ListingTickets == 2   \* SpecListing: detail messages sent, each with a ticket
UserTime == 1         \* SpecUser: the clock runs from 0 to UserTime
UserJobs == 2         \* SpecUser: greeting jobs registered
SharedTime == 1       \* SpecShared: the clock runs from 0 to SharedTime
SharedJobs == 2       \* SpecShared: greeting jobs registered
SharedTickets == 2    \* SpecShared: detail messages sent, each with a ticket

(***************************************************************************)
(* Program constants.                                                      *)
(***************************************************************************)
\* MESSAGE, INTERVAL, FIRST, LAST, CREATOR = range(5): the states of the
\* /schedule conversation and the keys of user_data and of a greeting job's
\* context.  The model keeps the names and writes the values as strings.
MESSAGE == "MESSAGE"
INTERVAL == "INTERVAL"
FIRST == "FIRST"
LAST == "LAST"
CREATOR == "CREATOR"
\* ConversationHandler.END: no conversation in progress for the key.
END == "END"
\* The state get_scheduled_messages returns when it listed something.
LISTED == "1"
\* Python's None, for the optional values (a datetime t is <<t>>).
None == <<>>
\* context={"message": ..., "text": ..., "time_left": 14}
TIME_LEFT == 14
\* conversation_timeout=15 of get_schedule_command_handler
CONVERSATION_TIMEOUT == 15
\* while not greeting_made and retries <= 3
MAX_RETRIES == 3

\* The chats the user talks in: the text of 1 is a prefix of the text of 12.
Chats == {1, 12}
\* update.message.from_user.full_name
FullName == "user"

(***************************************************************************)
(* Text.  A string is a sequence of one-character strings.                 *)
(***************************************************************************)
DigitChars == <<"0", "1", "2", "3", "4", "5", "6", "7", "8", "9">>

\* str(n) of a natural number
RECURSIVE Str(_)
Str(n) == IF n < 10 THEN <<DigitChars[n + 1]>>
          ELSE Str(n \div 10) \o <<DigitChars[(n % 10) + 1]>>

IsDigit(ch) == \E d \in 1..10 : DigitChars[d] = ch

DigitValue(ch) == (CHOOSE d \in 1..10 : DigitChars[d] = ch) - 1

\* Filters.regex("^[0-9]+$") on the text of an INTERVAL message
MatchesInterval(s) == Len(s) > 0 /\ \A i \in 1..Len(s) : IsDigit(s[i])

\* int(s) of a string of decimal digits
RECURSIVE ParseInt(_)
ParseInt(s) == IF Len(s) = 0 THEN 0
               ELSE 10 * ParseInt(SubSeq(s, 1, Len(s) - 1)) + DigitValue(s[Len(s)])

\* str.startswith
startswith(s, p) == Len(p) <= Len(s) /\ SubSeq(s, 1, Len(p)) = p

\* name=f"{update.effective_chat.id}_{time.time()}": time.time() is the
\* reading of the system clock, the second t and a fraction of it.
JobName(chat, t, fraction) ==
    Str(chat) \o <<"_">> \o Str(t) \o <<".">> \o Str(fraction)

(***************************************************************************)
(* The texts the user sends.                                               *)
(***************************************************************************)
MessageTexts == {"Good Morning!"}

IntervalTexts == {<<"a", "b", "c">>, <<"-", "5">>, <<"0">>, <<"2">>}

\* A text sent in state FIRST or LAST, by what the handlers tell apart:
\*   word      "now" / "never" in any letter case
\*   word_more a text that starts with the word and goes on ("now please")
\*   timestamp a well-formed "%Y-%m-%d %H:%M:%S" text of the instant t
\*   malformed a text of the timestamp's shape that strptime refuses
\*             (month 13, or text after the seconds)
\*   other     any other text
Instants == 0..3
TimeTexts == [shape : {"word", "word_more", "malformed", "other"}, t : {0}]
             \cup [shape : {"timestamp"}, t : Instants]

\* Filters.regex(r"^((now)|(\d{4}-\d{2}-\d{2} \d{2}:\d{2}:\d{2}))", IGNORECASE)
\* and the same with "never": a match at the start of the text is enough.
MatchesTime(text) == text.shape # "other"

\* update.message.text.lower() == "now" (or "never")
IsWord(text) == text.shape = "word"

\* datetime.strptime(text, "%Y-%m-%d %H:%M:%S").replace(tzinfo=IST):
\* the instant, or ValueError
strptime(text) == IF text.shape = "timestamp"
                  THEN [ok |-> TRUE, t |-> text.t]
                  ELSE [ok |-> FALSE, t |-> 0]

VARIABLES
    now,              \* the clock: datetime.now(IST) and time.time()
    conv,             \* state of the /schedule conversation of each chat
    user_data,        \* context.user_data of the user: a dict
    list_conv,        \* state of the /list conversation of each chat
    list_deadline,    \* when the /list conversation of a chat times out
    job_queue,        \* the jobs of updater.job_queue
    next_job_id,      \* jobs created so far + 1
    next_message_id,  \* per chat: the id of the next message the bot sends
    messages,         \* the detail messages the bot sent, as displayed
    fired,            \* log: the runs of the greeting callback
    greets,           \* per chat: the /greet command being handled
    entered,          \* history: per chat, the fields the user has sent in
                      \* the /schedule conversation in progress
    last              \* what the last update or job run did

vars == <<now, conv, user_data, list_conv, list_deadline, job_queue,
          next_job_id, next_message_id, messages, fired, greets, entered, last>>


(***************************************************************************)
(* Dicts.                                                                  *)
(***************************************************************************)
EmptyDict == [k \in {} |-> None]

\* d[key] = value
Put(d, key, value) == [k \in DOMAIN d \cup {key} |-> IF k = key THEN value ELSE d[k]]

\* What an update or a job run did, for the variable last; seq alternates,
\* so that every such step changes last.
Report(fields) == fields @@ [seq |-> 1 - last.seq]

\* No /greet is being handled
NoGreet == [pc |-> "idle", greeting_made |-> FALSE, retries |-> 0]

Init ==
    /\ now = 0
    /\ conv = [c \in Chats |-> END]
    /\ user_data = EmptyDict
    /\ list_conv = [c \in Chats |-> END]
    /\ list_deadline = [c \in Chats |-> 0]
    /\ job_queue = {}
    /\ next_job_id = 1
    /\ next_message_id = [c \in Chats |-> 1]
    /\ messages = EmptyDict
    /\ fired = {}
    /\ greets = [c \in Chats |-> NoGreet]
    /\ entered = [c \in Chats |-> EmptyDict]
    /\ last = [op |-> "init", seq |-> 0]

(***************************************************************************)
(* The /schedule conversation (schedule_command_handler).                  *)
(*                                                                         *)
(* ConversationHandler: with no conversation for the key only the entry    *)
(* points are tried; in a state, the handlers of the state and then the    *)
(* fallbacks.  An update no handler takes is dropped: nothing is sent and  *)
(* the state stays.  A handler that raises leaves the state as it was.     *)
(***************************************************************************)
NonTerminal == {MESSAGE, INTERVAL, FIRST, LAST}

\* /schedule
schedule(c) ==
    /\ conv[c] = END
    /\ conv' = [conv EXCEPT ![c] = MESSAGE]
    /\ entered' = [entered EXCEPT ![c] = EmptyDict]
    /\ last' = Report([op |-> "schedule", chat |-> c, ret |-> MESSAGE,
                reply |-> "ask_message", error |-> "none"])
    /\ UNCHANGED <<greets, now, user_data, list_conv, list_deadline, job_queue,
                   next_job_id, next_message_id, messages, fired>>

\* MESSAGE: Filters.text & ~Filters.command
schedule_message(c, text) ==
    /\ conv[c] = MESSAGE
    /\ user_data' = Put(user_data, MESSAGE, text)
    /\ entered' = [entered EXCEPT ![c] = Put(@, MESSAGE, text)]
    /\ conv' = [conv EXCEPT ![c] = INTERVAL]
    /\ last' = Report([op |-> "schedule_message", chat |-> c,
                ret |-> INTERVAL, reply |-> "ask_interval", error |-> "none"])
    /\ UNCHANGED <<greets, now, list_conv, list_deadline, job_queue,
                   next_job_id, next_message_id, messages, fired>>

\* INTERVAL: Filters.regex("^[0-9]+$")
schedule_interval(c, text) ==
    /\ conv[c] = INTERVAL
    /\ MatchesInterval(text)
    /\ user_data' = Put(user_data, INTERVAL, ParseInt(text))
    /\ entered' = [entered EXCEPT ![c] = Put(@, INTERVAL, ParseInt(text))]
    /\ conv' = [conv EXCEPT ![c] = FIRST]
    /\ last' = Report([op |-> "schedule_interval", chat |-> c,
                ret |-> FIRST, reply |-> "ask_start", error |-> "none"])
    /\ UNCHANGED <<greets, now, list_conv, list_deadline, job_queue,
                   next_job_id, next_message_id, messages, fired>>

\* INTERVAL, a text the filter of the state refuses: the update is dropped.
interval_unhandled(c, text) ==
    /\ conv[c] = INTERVAL
    /\ ~MatchesInterval(text)
    /\ last' = Report([op |-> "unhandled", chat |-> c,
                ret |-> INTERVAL, reply |-> "none", error |-> "none"])
    /\ UNCHANGED <<greets, entered, now, conv, user_data, list_conv, list_deadline, job_queue,
                   next_job_id, next_message_id, messages, fired>>

\* What schedule_first returns and replies: lines 464-498.
first_result(text, clock) ==
    IF IsWord(text)
    THEN [ret |-> LAST, reply |-> "ask_end", store |-> TRUE, date_object |-> None]
    ELSE IF strptime(text).ok
         THEN \* line 479: return FIRST follows the if, for every parsed value
              [ret |-> FIRST,
               reply |-> IF strptime(text).t < clock THEN "time_travel" ELSE "none",
               store |-> FALSE, date_object |-> <<strptime(text).t>>]
         ELSE [ret |-> FIRST, reply |-> "wrong_format", store |-> FALSE,
               date_object |-> None]

\* FIRST: the regex of the state matched
schedule_first(c, text) ==
    /\ conv[c] = FIRST
    /\ MatchesTime(text)
    /\ LET r == first_result(text, now) IN
        /\ user_data' = IF r.store THEN Put(user_data, FIRST, r.date_object)
                        ELSE user_data
        /\ entered' = IF r.store
                      THEN [entered EXCEPT ![c] = Put(@, FIRST, r.date_object)]
                      ELSE entered
        /\ conv' = [conv EXCEPT ![c] = r.ret]
        /\ last' = Report([op |-> "schedule_first", chat |-> c,
                    ret |-> r.ret, reply |-> r.reply, error |-> "none"])
    /\ UNCHANGED <<greets, now, list_conv, list_deadline, job_queue,
                   next_job_id, next_message_id, messages, fired>>

\* schedule_cancel without line 605, context.user_data.clear()
schedule_cancel_no_clear(c) ==
    /\ conv[c] \in NonTerminal
    /\ conv' = [conv EXCEPT ![c] = END]
    /\ entered' = [entered EXCEPT ![c] = EmptyDict]
    /\ last' = Report([op |-> "schedule_cancel", chat |-> c, from |-> conv[c],
                ret |-> END, reply |-> "canceling", error |-> "none"])
    /\ UNCHANGED <<greets, now, user_data, list_conv, list_deadline, job_queue,
                   next_job_id, next_message_id, messages, fired>>

\* /cancel in a state of the conversation: the fallback
schedule_cancel(c) ==
    /\ conv[c] \in NonTerminal
    /\ user_data' = EmptyDict
    /\ conv' = [conv EXCEPT ![c] = END]
    /\ entered' = [entered EXCEPT ![c] = EmptyDict]
    /\ last' = Report([op |-> "schedule_cancel", chat |-> c, from |-> conv[c],
                ret |-> END, reply |-> "canceling", error |-> "none"])
    /\ UNCHANGED <<greets, now, list_conv, list_deadline, job_queue,
                   next_job_id, next_message_id, messages, fired>>

(***************************************************************************)
(* The job queue.                                                          *)
(*                                                                         *)
(* JobQueue.run_repeating(callback, interval, first, last, context, name)  *)
(* adds an APScheduler job with an interval trigger:                       *)
(*   - an interval of 0 seconds is taken as 1 second;                      *)
(*   - start_date is `first`, and now + interval when first is None;       *)
(*   - the job runs at start_date, start_date + interval, ... while the    *)
(*     run time is <= end_date (`last`); when there is no next run time    *)
(*     after a run, the job is removed; a job that has no run time at all  *)
(*     when it is added stays in the queue and never runs.                 *)
(* Job.schedule_removal() takes the job out of the queue at once.          *)
(***************************************************************************)
TriggerInterval(interval) == IF interval = 0 THEN 1 ELSE interval

\* IntervalTrigger.get_next_fire_time(previous_fire_time, now)
get_next_fire_time(previous, start_date, interval, end_date, clock) ==
    LET next_fire_time ==
            IF previous # None THEN previous[1] + interval
            ELSE IF start_date > clock THEN start_date
            ELSE start_date + interval * ((clock - start_date + interval - 1) \div interval)
    IN  IF end_date = None \/ next_fire_time <= end_date[1]
        THEN <<next_fire_time>> ELSE None

\* The job run_repeating adds.
run_repeating(id, callback, interval, first, last_, context, name, clock) ==
    LET iv == TriggerInterval(interval)
        start_date == IF first = None THEN clock + iv ELSE first[1]
    IN  [id |-> id, name |-> name, callback |-> callback, interval |-> iv,
         next_run_time |-> get_next_fire_time(None, start_date, iv, last_, clock),
         end_date |-> last_, context |-> context,
         pc |-> "idle", local |-> None, removed |-> FALSE]

\* job_queue.jobs(): a job taken out while its callback runs stays in the
\* variable, marked removed, until the callback returns.
jobs == {j \in job_queue : ~j.removed}

\* job_queue.get_jobs_by_name(name)
get_jobs_by_name(name) == {j \in jobs : j.name = name}

\* job.schedule_removal()
schedule_removal(queue, j) ==
    IF j.pc = "idle" THEN queue \ {j}
    ELSE (queue \ {j}) \cup {[j EXCEPT !.removed = TRUE]}

IsGreeting(j) == j.callback.fn = "schedule_callback"

IsTicket(j) == j.callback.fn = "edit_time_left"

\* The queue after the scheduler ran job j at its run time: the next run
\* time is set, or the job is removed when there is none.
after_run(j) ==
    LET nxt == get_next_fire_time(j.next_run_time, 0, j.interval, j.end_date, now)
    IN  IF nxt = None THEN job_queue \ {j}
        ELSE (job_queue \ {j}) \cup {[j EXCEPT !.next_run_time = nxt]}

Due(j) ==
    /\ ~j.removed
    /\ j.pc = "idle"
    /\ j.next_run_time # None
    /\ j.next_run_time[1] <= now

(***************************************************************************)
(* schedule_last: the end of the conversation, and the registration.       *)
(***************************************************************************)
\* Lines 511-549: the value of date_object, or why the handler returns
\* before line 550.
last_result(text, clock, data) ==
    IF IsWord(text) THEN [kind |-> "accept", date_object |-> None]
    ELSE IF ~strptime(text).ok THEN [kind |-> "wrong_format", date_object |-> None]
    ELSE IF FIRST \notin DOMAIN data THEN [kind |-> "KeyError", date_object |-> None]
    ELSE IF data[FIRST] = None /\ strptime(text).t < clock
         THEN [kind |-> "time_travel", date_object |-> None]
    ELSE IF data[FIRST] # None /\ strptime(text).t < data[FIRST][1]
         THEN [kind |-> "before_start", date_object |-> None]
    ELSE [kind |-> "accept", date_object |-> <<strptime(text).t>>]

\* context={CREATOR: ..., MESSAGE: ..., INTERVAL: ..., FIRST: ..., LAST: ...}
greeting_context(data, clock) ==
    [CREATOR |-> FullName, MESSAGE |-> data[MESSAGE], INTERVAL |-> data[INTERVAL],
     FIRST |-> IF data[FIRST] # None THEN data[FIRST] ELSE <<clock>>,
     LAST |-> data[LAST]]

\* get_callback(message, chat_id)
get_callback(message, chat_id) ==
    [fn |-> "schedule_callback", message |-> message, chat_id |-> chat_id]

\* Lines 569-584: the job the conversation registers.
register(c, data, clock, fraction, id) ==
    run_repeating(id, get_callback(data[MESSAGE], c), data[INTERVAL],
                  data[FIRST], data[LAST], greeting_context(data, clock),
                  JobName(c, clock, fraction), clock)

RECURSIVE SumOver(_, _)
SumOver(f, S) == IF S = {} THEN 0
                 ELSE LET x == CHOOSE y \in S : TRUE IN f[x] + SumOver(f, S \ {x})

\* Detail messages sent so far, each with its ticket.
TicketsCreated == SumOver([c \in Chats |-> next_message_id[c] - 1], Chats)

\* Greeting jobs registered so far.
GreetingsRegistered == next_job_id - 1 - TicketsCreated

\* A schedule_last that asks for the end again after run_repeating
last_return_again == LAST

\* Line 586: what schedule_last returns after run_repeating
last_return == END

\* LAST: the regex of the state matched; fraction is the fraction of the
\* second that time.time() reads at line 583
schedule_last(c, text, fraction) ==
    /\ conv[c] = LAST
    /\ MatchesTime(text)
    /\ LET r == last_result(text, now, user_data)
           stored == Put(user_data, LAST, r.date_object)
           base == [op |-> "schedule_last", chat |-> c]
       IN
        IF r.kind = "KeyError"
        THEN \* user_data[FIRST] at line 517
             /\ last' = Report(base @@ [ret |-> LAST, reply |-> "none", error |-> "KeyError"])
             /\ UNCHANGED <<conv, user_data, job_queue, next_job_id, entered>>
        ELSE IF r.kind # "accept"
        THEN /\ last' = Report(base @@ [ret |-> LAST, reply |-> r.kind, error |-> "none"])
             /\ UNCHANGED <<conv, user_data, job_queue, next_job_id, entered>>
        ELSE IF ~({MESSAGE, INTERVAL, FIRST} \subseteq DOMAIN stored)
        THEN \* line 550 stored LAST; the reply of line 551 reads a missing key
             /\ user_data' = stored
             /\ entered' = [entered EXCEPT ![c] = Put(@, LAST, r.date_object)]
             /\ last' = Report(base @@ [ret |-> LAST, reply |-> "none", error |-> "KeyError"])
             /\ UNCHANGED <<conv, job_queue, next_job_id>>
        ELSE /\ user_data' = stored
             /\ entered' = [entered EXCEPT ![c] = EmptyDict]
             /\ job_queue' = job_queue \cup {register(c, stored, now, fraction, next_job_id)}
             /\ next_job_id' = next_job_id + 1
             /\ conv' = [conv EXCEPT ![c] = last_return]
             /\ last' = Report(base @@ [ret |-> last_return, reply |-> "confirm",
                                 error |-> "none"])
    /\ UNCHANGED <<greets, now, list_conv, list_deadline, next_message_id, messages, fired>>

(***************************************************************************)
(* The greeting callback (get_callback / schedule_callback), run by the    *)
(* scheduler at the job's run time.  Its inputs are the results of the     *)
(* attempts of lines 370-372 (get_random_quote, then make_greeting): the   *)
(* greeting is made, or the attempt raises.  Every attempt is taken to     *)
(* return.                                                                 *)
(***************************************************************************)
AttemptResult == {"made", "raised"}

\* The results of the attempts a run can make, and of one more
AttemptResults == [1..(MAX_RETRIES + 2) -> AttemptResult]

\* The runs of the scenarios that do not look into the callback: the first
\* attempt makes the greeting, or every attempt raises.
Outcomes == {[i \in 1..(MAX_RETRIES + 2) |-> r] : r \in AttemptResult}

AllMade == [i \in 1..(MAX_RETRIES + 2) |-> "made"]

\* A loop that counts one retry less
retry_condition_short(retries) == retries < MAX_RETRIES

\* Line 368: retries <= 3
retry_condition(retries) == retries <= MAX_RETRIES

\* Lines 366-376: the loop, from attempt number `attempts` + 1 on
RECURSIVE retry_loop(_, _, _, _)
retry_loop(results, greeting_made, retries, attempts) ==
    IF ~greeting_made /\ retry_condition(retries)
    THEN IF results[attempts + 1] = "made"
         THEN retry_loop(results, TRUE, retries, attempts + 1)
         ELSE retry_loop(results, FALSE, retries + 1, attempts + 1)
    ELSE [greeting_made |-> greeting_made, retries |-> retries,
          attempts |-> attempts]

schedule_callback(j, results) ==
    /\ j \in job_queue
    /\ IsGreeting(j)
    /\ Due(j)
    /\ job_queue' = after_run(j)
    /\ fired' = fired \cup {[id |-> j.id, name |-> j.name, at |-> now,
                             created |-> j.context[FIRST][1]]}
    /\ LET loop == retry_loop(results, FALSE, 0, 0) IN
       last' = Report([op |-> "schedule_callback", chat |-> j.callback.chat_id,
                id |-> j.id,
                outcome |-> IF loop.greeting_made THEN "sent" ELSE "skipped",
                attempts |-> loop.attempts, error |-> "none"])
    /\ UNCHANGED <<greets, entered, now, conv, user_data, list_conv, list_deadline,
                   next_job_id, next_message_id, messages>>

(***************************************************************************)
(* /greet (greet_command_handler, run_async=True): the command runs on a   *)
(* thread of its own, step by step: the test of the while loop (line 85)   *)
(* and what follows the loop, each request of get_random_quote, and        *)
(* make_greeting.                                                          *)
(***************************************************************************)
\* Lines 83-84
greet(c) ==
    /\ greets[c].pc = "idle"
    /\ greets' = [greets EXCEPT ![c] =
                    [pc |-> "while", greeting_made |-> FALSE, retries |-> 0]]
    /\ last' = Report([op |-> "greet", chat |-> c, reply |-> "none", error |-> "none"])
    /\ UNCHANGED <<now, conv, user_data, list_conv, list_deadline, job_queue,
                   next_job_id, next_message_id, messages, fired, entered>>

\* Line 85, and lines 97-103 when the loop is left
greet_while(c) ==
    /\ greets[c].pc = "while"
    /\ IF ~greets[c].greeting_made /\ retry_condition(greets[c].retries)
       THEN /\ greets' = [greets EXCEPT ![c].pc = "get_random_quote"]
            /\ last' = Report([op |-> "greet_while", chat |-> c,
                        reply |-> "none", error |-> "none"])
       ELSE /\ greets' = [greets EXCEPT ![c] = NoGreet]
            /\ last' = Report([op |-> "greet_while", chat |-> c,
                        reply |-> IF greets[c].greeting_made THEN "photo"
                                  ELSE "went_wrong",
                        error |-> "none"])
    /\ UNCHANGED <<now, conv, user_data, list_conv, list_deadline, job_queue,
                   next_job_id, next_message_id, messages, fired, entered>>

\* What a request of get_random_quote can bring:
\*   status_not_200  response.status_code != 200
\*   undecodable     json.loads raises JSONDecodeError
\*   blacklisted     the quote has a blacklisted pattern, or is empty
\*   quote           a quote that passes
\*   raised          requests.get raises, or the answer has no "quoteText"
Responses == {"status_not_200", "undecodable", "blacklisted", "quote", "raised"}

\* Where get_random_quote goes on after a response: lines 113-128
after_response(response) ==
    IF response = "quote" THEN "make_greeting"
    ELSE IF response = "raised" THEN "while"
    ELSE "get_random_quote"

\* One turn of the loop of get_random_quote, called at line 87
get_random_quote(c, response) ==
    /\ greets[c].pc = "get_random_quote"
    /\ greets' = [greets EXCEPT ![c].pc = after_response(response)]
    /\ last' = Report([op |-> "get_random_quote", chat |-> c,
                response |-> response,
                error |-> IF response = "raised" THEN "Exception" ELSE "none"])
    /\ UNCHANGED <<now, conv, user_data, list_conv, list_deadline, job_queue,
                   next_job_id, next_message_id, messages, fired, entered>>

\* Lines 93-96: make_greeting returns the image, or raises
make_greeting(c, result) ==
    /\ greets[c].pc = "make_greeting"
    /\ greets' = [greets EXCEPT ![c].pc = "while",
                                ![c].greeting_made = (result = "made")]
    /\ last' = Report([op |-> "make_greeting", chat |-> c,
                error |-> IF result = "raised" THEN "Exception" ELSE "none"])
    /\ UNCHANGED <<now, conv, user_data, list_conv, list_deadline, job_queue,
                   next_job_id, next_message_id, messages, fired, entered>>

(***************************************************************************)
(* /list: get_scheduled_messages.                                          *)
(***************************************************************************)
\* a runs no later than b: the order of job_queue.jobs()
RunsBefore(a, b) ==
    \/ b.next_run_time = None
    \/ a.next_run_time # None /\ a.next_run_time[1] <= b.next_run_time[1]

\* The orders in which job_queue.jobs() may give the jobs of S: by run
\* time, jobs of the same run time in any order.
RECURSIVE Orders(_)
Orders(S) ==
    IF S = {} THEN {<<>>}
    ELSE UNION {{<<j>> \o rest : rest \in Orders(S \ {j})} :
                j \in {x \in S : \A y \in S : RunsBefore(x, y)}}

\* Lines 619-623: the jobs /list takes as the jobs of chat c.
chat_jobs(c) == {j \in jobs : startswith(j.name, Str(c))}

\* job.context[CREATOR], [MESSAGE], [INTERVAL], [FIRST], [LAST] can be read
HasGreetingContext(j) ==
    {CREATOR, MESSAGE, INTERVAL, FIRST, LAST} \subseteq DOMAIN j.context

\* How many jobs of seq the loop of line 629 handles before a KeyError
Handled(seq) ==
    IF \A i \in 1..Len(seq) : HasGreetingContext(seq[i]) THEN Len(seq)
    ELSE (CHOOSE i \in 1..Len(seq) :
            /\ ~HasGreetingContext(seq[i])
            /\ \A k \in 1..(i - 1) : HasGreetingContext(seq[k])) - 1

Footer(kind, n) == [kind |-> kind, n |-> n]

\* The detail message of a job as sent: its first line names the job.
detail_message(j) ==
    [text |-> j.name, footer |-> Footer("countdown", TIME_LEFT + 1),
     edits |-> 0, marked |-> FALSE]

\* Lines 646-651: the countdown ticket of the detail message <<c, mid>>
ticket(id, c, mid, j) ==
    run_repeating(id, [fn |-> "edit_time_left"], 1, None, None,
                  [message |-> <<c, mid>>, text |-> j.name,
                   time_left |-> <<TIME_LEFT>>],
                  Str(mid), now)

get_scheduled_messages(c) ==
    /\ list_conv[c] = END
    /\ \E seq \in Orders(chat_jobs(c)) :
        LET n == Handled(seq)
            mid(i) == next_message_id[c] + i - 1
            failed == n < Len(seq)
        IN
        /\ messages' = [k \in DOMAIN messages \cup {<<c, mid(i)>> : i \in 1..n} |->
                          IF k \in DOMAIN messages THEN messages[k]
                          ELSE detail_message(seq[k[2] - next_message_id[c] + 1])]
        /\ job_queue' = job_queue \cup
                          {ticket(next_job_id + i - 1, c, mid(i), seq[i]) : i \in 1..n}
        /\ next_job_id' = next_job_id + n
        /\ next_message_id' = [next_message_id EXCEPT ![c] = @ + n]
        /\ list_conv' = [list_conv EXCEPT ![c] =
                           IF Len(seq) > 0 /\ ~failed THEN LISTED ELSE END]
        /\ list_deadline' = [list_deadline EXCEPT ![c] =
                           IF Len(seq) > 0 /\ ~failed
                           THEN now + CONVERSATION_TIMEOUT ELSE @]
        /\ last' = Report([op |-> "get_scheduled_messages", chat |-> c,
                    ret |-> IF Len(seq) > 0 /\ ~failed THEN LISTED ELSE END,
                    reply |-> IF Len(seq) > 0 THEN "list" ELSE "nothing_scheduled",
                    error |-> IF failed THEN "KeyError" ELSE "none",
                    selected |-> {seq[i].id : i \in 1..Len(seq)},
                    shown |-> n])
    /\ UNCHANGED <<greets, entered, now, conv, user_data, fired>>

\* conversation_timeout: the /list conversation ends by itself
list_timeout(c) ==
    /\ list_conv[c] = LISTED
    /\ now >= list_deadline[c]
    /\ list_conv' = [list_conv EXCEPT ![c] = END]
    /\ last' = Report([op |-> "list_timeout", chat |-> c, error |-> "none"])
    /\ UNCHANGED <<greets, entered, now, conv, user_data, list_deadline, job_queue,
                   next_job_id, next_message_id, messages, fired>>

(***************************************************************************)
(* edit_time_left: the per-second run of a countdown ticket.  The callback *)
(* runs on a scheduler thread, beside the handlers: it reads the context   *)
(* (lines 667-669), and edits the message and writes the context back      *)
(* (lines 670-684) in a second step.                                       *)
(***************************************************************************)
\* The scheduler starts the run: the next run time is set, the callback
\* reads time_left.
edit_time_left_read(j) ==
    /\ j \in job_queue
    /\ IsTicket(j)
    /\ Due(j)
    /\ job_queue' = (job_queue \ {j}) \cup
            {[j EXCEPT !.next_run_time = <<j.next_run_time[1] + j.interval>>,
                       !.pc = "running", !.local = j.context.time_left]}
    /\ last' = Report([op |-> "edit_time_left_read", id |-> j.id, error |-> "none"])
    /\ UNCHANGED <<greets, entered, now, conv, user_data, list_conv, list_deadline,
                   next_job_id, next_message_id, messages, fired>>

\* The footer the run writes for the value of time_left it read
tick_footer(time_left) ==
    IF time_left = None THEN Footer("cancelled", 0)
    ELSE IF time_left[1] = 0 THEN Footer("none", 0)
    ELSE Footer("countdown", time_left[1])

\* A run that only ends with schedule_removal() on a cancelled ticket
tick_removes_cancelled_only(time_left) == time_left = None

\* Whether the run ends with context.job.schedule_removal()
tick_removes(time_left) == time_left = None \/ time_left[1] - 1 = -1

\* The rest of the run; edit_ok: message.edit_text did not raise.
edit_time_left_write(j, edit_ok) ==
    /\ j \in job_queue
    /\ IsTicket(j)
    /\ j.pc = "running"
    /\ LET returned == [j EXCEPT !.pc = "idle", !.local = None]
           rest == job_queue \ {j}
       IN
        IF ~edit_ok
        THEN /\ job_queue' = IF j.removed THEN rest ELSE rest \cup {returned}
             /\ last' = Report([op |-> "edit_time_left", id |-> j.id, error |-> "TelegramError"])
             /\ UNCHANGED messages
        ELSE /\ messages' = [messages EXCEPT
                               ![j.context.message].footer = tick_footer(j.local),
                               ![j.context.message].edits = @ + 1]
             /\ job_queue' =
                    IF tick_removes(j.local) \/ j.removed THEN rest
                    ELSE rest \cup {[returned EXCEPT
                                       !.context.time_left = <<j.local[1] - 1>>]}
             /\ last' = Report([op |-> "edit_time_left", id |-> j.id,
                         error |-> IF tick_removes(j.local) /\ j.removed
                                   THEN "JobLookupError" ELSE "none"])
    /\ UNCHANGED <<greets, entered, now, conv, user_data, list_conv, list_deadline,
                   next_job_id, next_message_id, fired>>

(***************************************************************************)
(* The cancel reply: handle_schedule_cancel, the fallback of the /list     *)
(* conversation, on a text that matches ^cancel$ in any letter case.       *)
(***************************************************************************)
\* The message a cancel replies to, by what the handler reads of it:
\* whether there is one, its message_id, and the text that
\* "^Schedule ID: ([^\s]+)\s" finds in it (<<>> when it finds none).
ReplyTo(is_reply, message_id, schedule_id) ==
    [is_reply |-> is_reply, message_id |-> message_id, schedule_id |-> schedule_id]

\* A cancel that replies to no message
NoReply == {ReplyTo(FALSE, 0, <<>>)}

\* A cancel that replies to a detail message of chat c
DetailReplies(c) ==
    {ReplyTo(TRUE, k[2], messages[k].text) : k \in {x \in DOMAIN messages : x[1] = c}}

\* A cancel that replies to another message of chat c, with an id of ids:
\* a text with no "Schedule ID: " line, or a text of the user's own whose
\* first line names a job of the queue or names no job.
OtherReplies(c, ids) ==
    {ReplyTo(TRUE, i, t) :
        i \in {x \in ids : <<c, x>> \notin DOMAIN messages},
        t \in {<<>>, <<"x">>} \cup {j.name : j \in job_queue}}

\* The jobs get_jobs_by_name(name)[0] can be
first_by_name(name) ==
    {x \in get_jobs_by_name(name) : \A y \in get_jobs_by_name(name) : RunsBefore(x, y)}

\* Lines 705-706 on the queue q: the jobs named after the message are marked
mark_cancelled(q, message_id) ==
    {IF ~j.removed /\ j.name = Str(message_id)
     THEN [j EXCEPT !.context = [k \in DOMAIN j.context \cup {"time_left"} |->
                                   IF k = "time_left" THEN None ELSE j.context[k]]]
     ELSE j : j \in q}

\* The detail messages whose tickets line 706 marks
marked_messages(q, message_id) ==
    {j.context.message : j \in {x \in q : /\ ~x.removed
                                         /\ x.name = Str(message_id)
                                         /\ IsTicket(x)}}

handle_schedule_cancel(c, m) ==
    /\ list_conv[c] = LISTED
    /\ LET base == [op |-> "handle_schedule_cancel", chat |-> c, reply_to |-> m]
       IN
        IF ~m.is_reply \/ m.schedule_id = <<>>
        THEN \* message.text of None, or .group(1) of None
             /\ last' = Report(base @@ [ret |-> LISTED, reply |-> "none",
                                 error |-> "AttributeError", removed |-> 0])
             /\ UNCHANGED <<list_conv, job_queue, messages>>
        ELSE IF get_jobs_by_name(m.schedule_id) = {}
        THEN \* get_jobs_by_name(job_name)[0] of an empty tuple
             /\ last' = Report(base @@ [ret |-> LISTED, reply |-> "none",
                                 error |-> "IndexError", removed |-> 0])
             /\ UNCHANGED <<list_conv, job_queue, messages>>
        ELSE \E j \in first_by_name(m.schedule_id) :
             LET q == schedule_removal(job_queue, j) IN
             /\ job_queue' = mark_cancelled(q, m.message_id)
             /\ messages' = [k \in DOMAIN messages |->
                               IF k \in marked_messages(q, m.message_id)
                               THEN [messages[k] EXCEPT !.marked = TRUE]
                               ELSE messages[k]]
             /\ list_conv' = [list_conv EXCEPT ![c] = END]
             /\ last' = Report(base @@ [ret |-> END, reply |-> "cancelled",
                                 error |-> "none", removed |-> j.id])
    /\ UNCHANGED <<greets, entered, now, conv, user_data, list_deadline,
                   next_job_id, next_message_id, fired>>

(***************************************************************************)
(* Time.  The scheduler is punctual: the clock moves on when every job due *)
(* now has run, every running callback has returned and every timeout due  *)
(* has been taken.                                                         *)
(***************************************************************************)
Quiet ==
    /\ \A j \in job_queue : ~Due(j) /\ j.pc = "idle"
    /\ \A c \in Chats : list_conv[c] = LISTED => list_deadline[c] > now

AdvanceClock(bound) ==
    /\ now < bound
    /\ Quiet
    /\ now' = now + 1
    /\ UNCHANGED <<greets, entered, conv, user_data, list_conv, list_deadline, job_queue,
                   next_job_id, next_message_id, messages, fired, last>>

\* One second passes, the instants of the queue being counted from the
\* present: the clock reads the same, and every run time and every timeout
\* is one second nearer.  The behaviours are those of AdvanceClock; the
\* states of a queue that goes on for ever are finitely many.
PassSecond ==
    /\ Quiet
    /\ job_queue' = {[j EXCEPT !.next_run_time =
                                 IF @ = None THEN None ELSE <<@[1] - 1>>] :
                     j \in job_queue}
    /\ list_deadline' = [c \in Chats |->
                           IF list_conv[c] = LISTED THEN list_deadline[c] - 1
                           ELSE list_deadline[c]]
    /\ UNCHANGED <<greets, entered, now, conv, user_data, list_conv, next_job_id,
                   next_message_id, messages, fired, last>>

(***************************************************************************)
(* Spec: one /schedule conversation after another in one chat, with every  *)
(* text the user can send, the registration, and the runs of the jobs.     *)
(***************************************************************************)
SpecChats == {1}

Next ==
    \/ \E c \in SpecChats : schedule(c)
    \/ \E c \in SpecChats, text \in MessageTexts : schedule_message(c, text)
    \/ \E c \in SpecChats, text \in IntervalTexts : schedule_interval(c, text)
    \/ \E c \in SpecChats, text \in IntervalTexts : interval_unhandled(c, text)
    \/ \E c \in SpecChats, text \in TimeTexts : schedule_first(c, text)
    \/ \E c \in SpecChats, text \in TimeTexts :
            GreetingsRegistered < MaxJobs /\ schedule_last(c, text, next_job_id)
    \/ \E c \in SpecChats : schedule_cancel(c)
    \/ \E j \in job_queue, outcome \in Outcomes : schedule_callback(j, outcome)
    \/ AdvanceClock(MaxTime)

Spec == Init /\ [][Next]_vars

(***************************************************************************)
(* SpecRegistry: the job queue at work in the two chats.  The user holds   *)
(* one conversation at a time and answers every prompt with a text the     *)
(* bot takes (start "now"; end "never" or a timestamp); the jobs run, and  *)
(* the user lists and cancels them.  The clock stops before any /list      *)
(* conversation can time out.                                              *)
(***************************************************************************)
RegistryIntervalTexts == {<<"1">>, <<"2">>}

RegistryEndTexts == {text \in TimeTexts :
                        IsWord(text) \/ (strptime(text).ok /\ strptime(text).t = RegistryTime - 1)}

NextRegistry ==
    \/ \E c \in Chats :
            /\ \A d \in Chats : conv[d] = END
            /\ GreetingsRegistered < RegistryJobs
            /\ schedule(c)
    \/ \E c \in Chats, text \in MessageTexts : schedule_message(c, text)
    \/ \E c \in Chats, text \in RegistryIntervalTexts : schedule_interval(c, text)
    \/ \E c \in Chats, text \in {t \in TimeTexts : IsWord(t)} : schedule_first(c, text)
    \/ \E c \in Chats, text \in RegistryEndTexts : schedule_last(c, text, next_job_id)
    \/ \E j \in job_queue, outcome \in Outcomes : schedule_callback(j, outcome)
    \/ \E c \in Chats :
            /\ TicketsCreated + Cardinality(chat_jobs(c)) <= RegistryTickets
            /\ get_scheduled_messages(c)
    \/ \E j \in job_queue : edit_time_left_read(j)
    \/ \E j \in job_queue, edit_ok \in BOOLEAN : edit_time_left_write(j, edit_ok)
    \/ \E c \in Chats :
            \E m \in NoReply \cup DetailReplies(c) \cup OtherReplies(c, 1..RegistryTickets) :
                handle_schedule_cancel(c, m)
    \/ AdvanceClock(RegistryTime)

SpecRegistry == Init /\ [][NextRegistry]_vars

(***************************************************************************)
(* SpecCountdown: the countdown of the detail messages.  A greeting is     *)
(* scheduled in one chat, every 2 seconds and with no end; the user lists  *)
(* the jobs and replies with cancel, the tickets run every second, and the *)
(* /list conversation times out.  The clock runs long enough for a ticket  *)
(* to count down to its end.                                               *)
(***************************************************************************)
CountdownTime == TIME_LEFT + 3

CountdownIntervalTexts == {<<"2">>}

NextCountdown ==
    \/ \E c \in SpecChats :
            /\ now = 0
            /\ \A j \in jobs : ~IsGreeting(j)
            /\ schedule(c)
    \/ \E c \in SpecChats, text \in MessageTexts : schedule_message(c, text)
    \/ \E c \in SpecChats, text \in CountdownIntervalTexts : schedule_interval(c, text)
    \/ \E c \in SpecChats, text \in {t \in TimeTexts : IsWord(t)} :
            \/ schedule_first(c, text)
            \/ schedule_last(c, text, next_job_id)
    \/ \E j \in job_queue : schedule_callback(j, AllMade)
    \/ \E c \in SpecChats :
            /\ TicketsCreated + Cardinality(chat_jobs(c)) <= CountdownTickets
            /\ get_scheduled_messages(c)
    \/ \E c \in SpecChats : list_timeout(c)
    \/ \E j \in job_queue : edit_time_left_read(j)
    \/ \E j \in job_queue : edit_time_left_write(j, TRUE)
    \/ \E c \in SpecChats :
            \E m \in NoReply \cup DetailReplies(c) \cup OtherReplies(c, 1..CountdownTickets) :
                handle_schedule_cancel(c, m)
    \/ AdvanceClock(CountdownTime)

SpecCountdown == Init /\ [][NextCountdown]_vars

(***************************************************************************)
(* SpecTickets: the life of the tickets, with no end of time.  The         *)
(* scenario is the one of SpecCountdown, the edits of a ticket may fail,   *)
(* and seconds pass for ever.  The scheduler runs every job that is due    *)
(* and every callback it started returns, the timeout of a /list           *)
(* conversation is taken, and time goes on: these are the fairness         *)
(* conditions.  Nothing makes an edit succeed.                             *)
(***************************************************************************)
TicketRuns == \E j \in job_queue : edit_time_left_read(j)

TicketReturns == \E j \in job_queue, edit_ok \in BOOLEAN : edit_time_left_write(j, edit_ok)

GreetingRuns == \E j \in job_queue : schedule_callback(j, AllMade)

ListTimesOut == \E c \in SpecChats : list_timeout(c)

NextTickets ==
    \/ \E c \in SpecChats :
            /\ \A j \in jobs : ~IsGreeting(j)
            /\ schedule(c)
    \/ \E c \in SpecChats, text \in MessageTexts : schedule_message(c, text)
    \/ \E c \in SpecChats, text \in CountdownIntervalTexts : schedule_interval(c, text)
    \/ \E c \in SpecChats, text \in {t \in TimeTexts : IsWord(t)} :
            \/ schedule_first(c, text)
            \/ schedule_last(c, text, next_job_id)
    \/ GreetingRuns
    \/ \E c \in SpecChats :
            /\ TicketsCreated + Cardinality(chat_jobs(c)) <= CountdownTickets
            /\ get_scheduled_messages(c)
    \/ ListTimesOut
    \/ TicketRuns
    \/ TicketReturns
    \/ \E c \in SpecChats :
            \E m \in NoReply \cup DetailReplies(c) \cup OtherReplies(c, 1..CountdownTickets) :
                handle_schedule_cancel(c, m)
    \/ PassSecond

SpecTickets ==
    /\ Init
    /\ [][NextTickets]_vars
    /\ WF_vars(TicketRuns)
    /\ WF_vars(TicketReturns)
    /\ WF_vars(GreetingRuns)
    /\ WF_vars(ListTimesOut)
    /\ WF_vars(PassSecond)

(***************************************************************************)
(* SpecGreet: the making of greetings.  A greeting is scheduled in one     *)
(* chat, every 2 seconds and with no end, and its callback runs with every *)
(* result of its attempts; the user sends /greet, and the quote provider   *)
(* and the rendering answer in every way.  A thread that can take a step   *)
(* takes it, and every request is answered in some way: these are the      *)
(* fairness conditions.  Nothing makes a request or a rendering succeed.   *)
(***************************************************************************)
GreetLoops == \E c \in SpecChats : greet_while(c)

QuoteAnswers == \E c \in SpecChats, response \in Responses : get_random_quote(c, response)

GreetingRenders == \E c \in SpecChats, result \in AttemptResult : make_greeting(c, result)

CallbackRuns == \E j \in job_queue, results \in AttemptResults : schedule_callback(j, results)

NextGreet ==
    \/ \E c \in SpecChats :
            /\ \A j \in jobs : ~IsGreeting(j)
            /\ schedule(c)
    \/ \E c \in SpecChats, text \in MessageTexts : schedule_message(c, text)
    \/ \E c \in SpecChats, text \in CountdownIntervalTexts : schedule_interval(c, text)
    \/ \E c \in SpecChats, text \in {t \in TimeTexts : IsWord(t)} :
            \/ schedule_first(c, text)
            \/ schedule_last(c, text, next_job_id)
    \/ CallbackRuns
    \/ \E c \in SpecChats : greet(c)
    \/ GreetLoops
    \/ QuoteAnswers
    \/ GreetingRenders
    \/ PassSecond

SpecGreet ==
    /\ Init
    /\ [][NextGreet]_vars
    /\ WF_vars(GreetLoops)
    /\ WF_vars(QuoteAnswers)
    /\ WF_vars(GreetingRenders)
    /\ WF_vars(CallbackRuns)
    /\ WF_vars(PassSecond)

(***************************************************************************)
(* SpecListing: a listing of several jobs.  The user schedules greetings   *)
(* in one chat, every 2 seconds and with no end; the system clock reads    *)
(* any fraction of the second when a job is registered.  The user lists    *)
(* the jobs and replies with cancel to the detail messages, and the        *)
(* tickets run.  The clock stops before a /list conversation can time out  *)
(* and before a ticket counts down to its end.                             *)
(***************************************************************************)
\* The fractions of a second that time.time() reads
Fractions == 1..ListingJobs

NextListing ==
    \/ \E c \in SpecChats :
            /\ GreetingsRegistered < ListingJobs
            /\ schedule(c)
    \/ \E c \in SpecChats, text \in MessageTexts : schedule_message(c, text)
    \/ \E c \in SpecChats, text \in CountdownIntervalTexts : schedule_interval(c, text)
    \/ \E c \in SpecChats, text \in {t \in TimeTexts : IsWord(t)} : schedule_first(c, text)
    \/ \E c \in SpecChats, text \in {t \in TimeTexts : IsWord(t)}, fraction \in Fractions :
            schedule_last(c, text, fraction)
    \/ \E j \in job_queue : schedule_callback(j, AllMade)
    \/ \E c \in SpecChats :
            /\ TicketsCreated + Cardinality(chat_jobs(c)) <= ListingTickets
            /\ get_scheduled_messages(c)
    \/ \E j \in job_queue : edit_time_left_read(j)
    \/ \E j \in job_queue : edit_time_left_write(j, TRUE)
    \/ \E c \in SpecChats : \E m \in DetailReplies(c) : handle_schedule_cancel(c, m)
    \/ AdvanceClock(ListingTime)

SpecListing == Init /\ [][NextListing]_vars

(***************************************************************************)
(* SpecUser: one user in two chats.  context.user_data is the dictionary   *)
(* of the user, whatever the chat, and the state of a conversation is kept *)
(* for each chat: the user holds a /schedule conversation in each of the   *)
(* chats, the steps of the two come in any order, and each can be          *)
(* cancelled.  The user answers every prompt with a text the bot takes     *)
(* (start "now", end "never"), a different greeting and interval in each   *)
(* conversation if they wish.                                              *)
(***************************************************************************)
UserMessageTexts == {"Good Morning!", "Happy Birthday!"}

NextUser ==
    \/ \E c \in Chats :
            /\ GreetingsRegistered + Cardinality({d \in Chats : conv[d] # END}) < UserJobs
            /\ schedule(c)
    \/ \E c \in Chats, text \in UserMessageTexts : schedule_message(c, text)
    \/ \E c \in Chats, text \in RegistryIntervalTexts : schedule_interval(c, text)
    \/ \E c \in Chats, text \in {t \in TimeTexts : IsWord(t)} : schedule_first(c, text)
    \/ \E c \in Chats, text \in {t \in TimeTexts : IsWord(t)} :
            schedule_last(c, text, next_job_id)
    \/ \E c \in Chats : schedule_cancel(c)
    \/ \E j \in job_queue : schedule_callback(j, AllMade)
    \/ AdvanceClock(UserTime)

SpecUser == Init /\ [][NextUser]_vars

(***************************************************************************)
(* SpecShared: the one job queue of the bot, shared by the two chats.  The *)
(* user schedules greetings (every second, start "now", end "never"),      *)
(* one conversation at a time, lists the jobs in both chats and replies    *)
(* with cancel, to a detail message of the chat or to a message of their   *)
(* own.  The clock stops before a /list conversation can time out.         *)
(***************************************************************************)
SharedIntervalTexts == {<<"1">>}

SharedReplies(c) ==
    DetailReplies(c) \cup OtherReplies(c, {SharedTickets + 1})

NextShared ==
    \/ \E c \in Chats :
            /\ \A d \in Chats : conv[d] = END
            /\ GreetingsRegistered < SharedJobs
            /\ schedule(c)
    \/ \E c \in Chats, text \in MessageTexts : schedule_message(c, text)
    \/ \E c \in Chats, text \in SharedIntervalTexts : schedule_interval(c, text)
    \/ \E c \in Chats, text \in {t \in TimeTexts : IsWord(t)} : schedule_first(c, text)
    \/ \E c \in Chats, text \in {t \in TimeTexts : IsWord(t)} :
            schedule_last(c, text, next_job_id)
    \/ \E j \in job_queue : schedule_callback(j, AllMade)
    \/ \E c \in Chats :
            /\ TicketsCreated + Cardinality(chat_jobs(c)) <= SharedTickets
            /\ get_scheduled_messages(c)
    \/ \E j \in job_queue : edit_time_left_read(j)
    \/ \E j \in job_queue : edit_time_left_write(j, TRUE)
    \/ \E c \in Chats : \E m \in SharedReplies(c) : handle_schedule_cancel(c, m)
    \/ AdvanceClock(SharedTime)

SpecShared == Init /\ [][NextShared]_vars

(***************************************************************************)
(* The claims about the conversation.                                      *)
(***************************************************************************)
\* A step in which an update was handled or a job ran
Handled_(op, c) == last'.seq # last.seq /\ last'.op = op /\ last'.chat = c

\* The greeting jobs of a queue
Greetings(q) == {j \in q : IsGreeting(j)}

GreetingIds(q) == {j.id : j \in Greetings(q)}

\* The start of a conversation is never an explicit one: lines 467-479 of
\* schedule_first return FIRST for every timestamp that parses, and line 490
\* only ever stores None.
ExplicitStartNeverStored ==
    FIRST \in DOMAIN user_data => user_data[FIRST] = None

\* C5: in AwaitingStart, a text that parses as a timestamp strictly after
\* the current instant is stored as the explicit start and the Collector
\* advances to AwaitingEnd.
C5_FutureStartAdvances ==
    [][\A c \in Chats, text \in TimeTexts :
        (strptime(text).ok /\ strptime(text).t > now /\ schedule_first(c, text))
        => /\ conv'[c] = LAST
           /\ FIRST \in DOMAIN user_data'
           /\ user_data'[FIRST] = <<strptime(text).t>>]_vars

\* int(text) > 0 of a text of decimal digits
IsPositiveInteger(text) == MatchesInterval(text) /\ ParseInt(text) > 0

\* C6: in AwaitingInterval, a text that is not a positive base-10 integer
\* leaves the Collector in AwaitingInterval, and every registered job has
\* an interval > 0.
C6_BadIntervalStays ==
    /\ [][\A c \in Chats, text \in IntervalTexts :
            (/\ ~IsPositiveInteger(text)
             /\ schedule_interval(c, text) \/ interval_unhandled(c, text))
            => conv'[c] = INTERVAL]_vars
    /\ [](\A j \in Greetings(job_queue) : j.context[INTERVAL] > 0)

\* C7: in AwaitingStart, a parsed timestamp equal to or before the current
\* instant is answered with a re-prompt, the Collector stays in
\* AwaitingStart, no start is stored and the conversation goes on.
C7_PastStartReprompts ==
    [][\A c \in Chats, text \in TimeTexts :
        (strptime(text).ok /\ strptime(text).t <= now /\ schedule_first(c, text))
        => /\ last'.reply = "time_travel"
           /\ last'.error = "none"
           /\ conv'[c] = FIRST
           /\ user_data' = user_data]_vars

\* The effective start of the conversation: the current instant when the
\* start is Immediate, else the explicit start
EffectiveStart == IF user_data[FIRST] = None THEN now ELSE user_data[FIRST][1]

\* C8: in AwaitingEnd, an explicit end is accepted only if it is strictly
\* after the effective start, and is otherwise answered with a re-prompt in
\* AwaitingEnd; so the explicit end of every registered job is strictly
\* after its start (its creation time when the start is Immediate).
C8_EndAfterStart ==
    /\ [][\A c \in Chats, text \in TimeTexts :
            (/\ strptime(text).ok
             /\ FIRST \in DOMAIN user_data
             /\ schedule_last(c, text, next_job_id))
            => IF strptime(text).t > EffectiveStart
               THEN conv'[c] = END
               ELSE /\ conv'[c] = LAST
                    /\ last'.reply \in {"time_travel", "before_start"}]_vars
    /\ [](\A j \in Greetings(job_queue) :
            j.context[LAST] # None => j.context[LAST][1] > j.context[FIRST][1])

\* C9: from each of AwaitingMessage, AwaitingInterval, AwaitingStart and
\* AwaitingEnd the cancel action is there and ends the conversation; it
\* registers no job and leaves none of the collected fields; a job is only
\* ever registered by the step that ends a conversation as Done.
C9_CancelDiscards ==
    /\ [](\A c \in Chats : conv[c] \in NonTerminal => ENABLED schedule_cancel(c))
    /\ [][\A c \in Chats :
            Handled_("schedule_cancel", c)
            => /\ conv[c] \in NonTerminal
               /\ conv'[c] = END
               /\ DOMAIN user_data' = {}
               /\ GreetingIds(job_queue') = GreetingIds(job_queue)
               /\ next_job_id' = next_job_id]_vars
    /\ [][GreetingIds(job_queue') \ GreetingIds(job_queue) # {}
            => /\ last'.seq # last.seq
               /\ last'.op = "schedule_last"
               /\ last'.ret = END]_vars

\* C9, witness: a conversation is canceled in AwaitingEnd, after the
\* message, the interval and the start were collected.
C9_Witness ==
    /\ last.op = "schedule_cancel"
    /\ last.from = LAST
    /\ DOMAIN user_data = {}
    /\ conv[last.chat] = END

(***************************************************************************)
(* The claims about the job queue, read against SpecRegistry.              *)
(***************************************************************************)
\* The instants at which the greeting job of number id has run
RanAt(id) == {f.at : f \in {g \in fired : g.id = id}}

Indefinite(j) == IsGreeting(j) /\ j.context[LAST] = None

\* C2: a job with an Immediate start and an Indefinite end, registered at
\* T0, runs at T0, T0 + interval, T0 + 2 * interval, ... (every such instant
\* that has passed has its run, and it runs at no other instant), and it
\* leaves the queue only by a cancel.
C2_ImmediateIndefiniteRuns ==
    /\ [](\A j \in jobs :
            (Indefinite(j) /\ j.context[INTERVAL] > 0)
            => LET T0 == j.context[FIRST][1]
                   interval == j.context[INTERVAL]
               IN  /\ \A t \in T0..(now - 1) :
                          (t - T0) % interval = 0 => t \in RanAt(j.id)
                   /\ \A t \in RanAt(j.id) :
                          t >= T0 /\ (t - T0) % interval = 0)
    /\ [][\A j \in jobs :
            (Indefinite(j) /\ j.id \notin GreetingIds(job_queue'))
            => /\ last'.seq # last.seq
               /\ last'.op = "handle_schedule_cancel"
               /\ last'.removed = j.id]_vars

\* The replies a cancel in chat c can be made to
CancelReplies(c) ==
    NoReply \cup DetailReplies(c) \cup OtherReplies(c, 1..RegistryTickets)

\* C3: a cancel reply that names a job takes the job out of the queue, a
\* job that is out never runs again (only a job of the queue runs, and a
\* job only enters the queue with a new number), and a cancel reply that
\* names no job of the queue raises no error and changes no job and no
\* ticket.
C3_CancelStopsAndIsIdempotent ==
    /\ [][\A c \in Chats : \A m \in CancelReplies(c) :
            (m.is_reply /\ m.schedule_id # <<>> /\ handle_schedule_cancel(c, m))
            => /\ last'.error = "none"
               /\ IF get_jobs_by_name(m.schedule_id) = {}
                  THEN job_queue' = job_queue /\ messages' = messages
                  ELSE \E j \in get_jobs_by_name(m.schedule_id) :
                          /\ last'.removed = j.id
                          /\ \A k \in job_queue' : k.id = j.id => k.removed]_vars
    /\ [][\A f \in fired' \ fired :
            \E j \in jobs : j.id = f.id /\ Due(j)]_vars
    /\ [][\A k \in job_queue' :
            (\A j \in job_queue : j.id # k.id) => k.id >= next_job_id]_vars

\* C4: the jobs /list takes as the jobs of a chat are exactly the greeting
\* jobs of the queue that were registered for that chat.
C4_ListIsOfTheChat ==
    \A c \in Chats :
        chat_jobs(c) = {j \in jobs : IsGreeting(j) /\ j.callback.chat_id = c}

(***************************************************************************)
(* The claim about the countdown, read against SpecCountdown.  A ticket is *)
(* canceled when a cancel reply has set its time_left to None; the detail  *)
(* message of such a ticket is marked.                                     *)
(***************************************************************************)
\* The tickets of the queue q that rewrite the detail message k
tickets_of(q, k) == {j \in q : IsTicket(j) /\ j.context.message = k}

\* C10: the rewrites of a detail message whose ticket was never canceled
\* show a strictly decreasing count (TIME_LEFT at the first rewrite, one
\* less at each rewrite), then one rewrite shows no footer and retires the
\* ticket, and the message is not rewritten after that.
C10_CountdownThenFrozen ==
    /\ [][\A k \in DOMAIN messages :
            (~messages'[k].marked /\ messages'[k] # messages[k])
            => /\ messages[k].footer.kind = "countdown"
               /\ messages'[k].edits = messages[k].edits + 1
               /\ \/ /\ messages'[k].footer.kind = "countdown"
                     /\ messages'[k].footer.n < messages[k].footer.n
                     /\ messages'[k].footer.n > 0
                  \/ /\ messages'[k].footer.kind = "none"
                     /\ messages[k].footer.n = 1
                     /\ tickets_of(job_queue', k) = {}]_vars
    /\ [](\A k \in DOMAIN messages :
            ~messages[k].marked
            => /\ messages[k].footer.kind = "countdown"
                  => messages[k].footer.n = TIME_LEFT + 1 - messages[k].edits
               /\ messages[k].footer.kind = "none"
                  => /\ messages[k].edits = TIME_LEFT + 1
                     /\ tickets_of(job_queue, k) = {}
               /\ messages[k].footer.kind # "cancelled")

\* C10, witness: a detail message that was never canceled has been
\* rewritten TIME_LEFT times with a count and once with no footer, and its
\* ticket has left the queue.
C10_Witness ==
    \E k \in DOMAIN messages :
        /\ ~messages[k].marked
        /\ messages[k].footer.kind = "none"
        /\ messages[k].edits = TIME_LEFT + 1
        /\ tickets_of(job_queue, k) = {}

\* C11: once a cancel reply has marked a live ticket, every rewrite of its
\* detail message writes the "cancelled" footer and retires the ticket, and
\* the mark stays on the ticket until then (no run of the ticket overwrites
\* it).
C11_CancelMarkWins ==
    /\ [][\A k \in DOMAIN messages :
            (messages[k].marked /\ messages'[k].edits # messages[k].edits)
            => /\ messages'[k].footer.kind = "cancelled"
               /\ tickets_of(job_queue', k) = {}]_vars
    /\ [](\A j \in job_queue :
            (IsTicket(j) /\ ~j.removed /\ messages[j.context.message].marked)
            => j.context.time_left = None)

(***************************************************************************)
(* The claim about the end of the tickets, read against SpecTickets.       *)
(***************************************************************************)
\* The numbers a job of SpecTickets can have
JobIds == 1..(2 * CountdownTickets + 1)

TicketRegistered(id) == \E j \in job_queue : IsTicket(j) /\ j.id = id

\* C12: every ticket that is in the queue leaves it at some later time.
C12_TicketsRetire ==
    \A id \in JobIds : TicketRegistered(id) ~> ~TicketRegistered(id)

(***************************************************************************)
(* The claims about the making of greetings, read against SpecGreet.       *)
(***************************************************************************)
\* How many attempts raise before the first one that makes the greeting,
\* among the first MAX_RETRIES + 1
LeadingFailures(results) ==
    Cardinality({i \in 1..(MAX_RETRIES + 1) :
                    \A k \in 1..i : results[k] = "raised"})

\* C13: a run of the greeting callback makes at most MAX_RETRIES + 1
\* attempts (4); it sends the greeting made by the first attempt that does
\* not raise; when every one of the 4 attempts raises it skips the
\* occurrence, with no delivery and no error, and the job stays in the queue
\* with its next run time.
C13_RetriesThenSkips ==
    [][\A j \in job_queue : \A results \in AttemptResults :
        schedule_callback(j, results)
        => /\ last'.attempts <= MAX_RETRIES + 1
           /\ last'.error = "none"
           /\ IF LeadingFailures(results) = MAX_RETRIES + 1
              THEN /\ last'.outcome = "skipped"
                   /\ last'.attempts = MAX_RETRIES + 1
              ELSE /\ last'.outcome = "sent"
                   /\ last'.attempts = LeadingFailures(results) + 1
           /\ Indefinite(j)
              => \E k \in job_queue' :
                    /\ k.id = j.id
                    /\ [k EXCEPT !.next_run_time = j.next_run_time] = j
                    /\ k.next_run_time = <<j.next_run_time[1] + j.interval>>]_vars

\* A run whose four attempts all raised has skipped the occurrence, and the
\* job is still in the queue
C13_Witness ==
    /\ last.op = "schedule_callback"
    /\ last.outcome = "skipped"
    /\ last.attempts = MAX_RETRIES + 1
    /\ last.error = "none"
    /\ \E j \in jobs : j.id = last.id /\ IsGreeting(j)

\* The /greet command of chat c is being handled
Greeting(c) == greets[c].pc # "idle"

\* C14: a /greet command whose quote fetch or rendering fails on every
\* attempt ends after a bounded number of retries, with the message that
\* something went wrong: a command that does not stay inside one quote fetch
\* for ever comes to its end.
C14_GreetTerminates ==
    \A c \in SpecChats :
        \/ <>[](greets[c].pc = "get_random_quote")
        \/ Greeting(c) ~> ~Greeting(c)

\* C15: get_random_quote terminates, whatever the quote provider answers: a
\* fetch that has begun comes to return or to raise.
C15_FetchTerminates ==
    \A c \in SpecChats :
        (greets[c].pc = "get_random_quote") ~> (greets[c].pc # "get_random_quote")

(***************************************************************************)
(* The claims about the cancel reply, read against SpecCountdown.          *)
(***************************************************************************)
\* The replies a cancel in chat c can be made to
CountdownReplies(c) ==
    NoReply \cup DetailReplies(c) \cup OtherReplies(c, 1..CountdownTickets)

\* C16: a cancel that replies to no message, or to a message whose text
\* does not begin with "Schedule ID: " and a job id, is ignored: no job
\* leaves the queue, no ticket is marked, and no error is raised.
C16_MalformedReplyIgnored ==
    [][\A c \in SpecChats : \A m \in CountdownReplies(c) :
        ((~m.is_reply \/ m.schedule_id = <<>>) /\ handle_schedule_cancel(c, m))
        => /\ job_queue' = job_queue
           /\ messages' = messages
           /\ last'.error = "none"]_vars

(***************************************************************************)
(* The claims about a listing of several jobs, read against SpecListing.   *)
(***************************************************************************)
\* C17: the id of a registered greeting job (its name, the text after
\* "Schedule ID: ") is unique: no two greeting jobs of the queue have the
\* same id, also when they were registered for the same chat at the same
\* reading of the clock.
C17_IdsUnique ==
    \A j \in jobs : \A k \in jobs :
        (IsGreeting(j) /\ IsGreeting(k) /\ j.name = k.name) => j = k

\* The countdown of the detail message k is running: its ticket is in the
\* queue and is not canceled, and the job it names is registered
CountdownRunning(k) ==
    /\ \E t \in tickets_of(jobs, k) : t.context.time_left # None
    /\ \E j \in jobs : IsGreeting(j) /\ j.name = messages[k].text

\* C18: while the countdown of a detail message is running, a cancel reply
\* to it is taken by the /list conversation, whatever was canceled before,
\* and it takes the job the message names out of the queue and marks the
\* ticket of the message.
C18_EachListedJobCancels ==
    /\ [](\A k \in DOMAIN messages :
            CountdownRunning(k) => list_conv[k[1]] = LISTED)
    /\ [][\A c \in SpecChats : \A m \in DetailReplies(c) :
            (CountdownRunning(<<c, m.message_id>>) /\ handle_schedule_cancel(c, m))
            => /\ last'.error = "none"
               /\ \E j \in jobs : j.name = m.schedule_id /\ last'.removed = j.id
               /\ messages'[<<c, m.message_id>>].marked]_vars

\* The ticket of the detail message k has retired: it is not in the queue
Retired(k) == tickets_of(jobs, k) = {}

\* C19: the footer "This schedule has been cancelled." is written at most
\* once on a detail message (the rewrite that writes it finds another footer
\* and retires the ticket, and a retired ticket never returns), and a cancel
\* reply to a detail message whose ticket has retired raises no error and
\* rewrites no message.
C19_CancelledOnce ==
    /\ [][\A k \in DOMAIN messages :
            (messages'[k].edits # messages[k].edits
                /\ messages'[k].footer.kind = "cancelled")
            => /\ messages[k].footer.kind # "cancelled"
               /\ tickets_of(job_queue', k) = {}]_vars
    /\ [][\A k \in DOMAIN messages :
            Retired(k) => tickets_of(job_queue', k) = {}]_vars
    /\ [][\A c \in SpecChats : \A m \in DetailReplies(c) :
            (Retired(<<c, m.message_id>>) /\ handle_schedule_cancel(c, m))
            => /\ last'.error = "none"
               /\ messages' = messages]_vars

(***************************************************************************)
(* The claim about one user in two chats, read against SpecUser.  The      *)
(* variable entered keeps, for each chat, what the user has entered in the *)
(* conversation of that chat since it began.                               *)
(***************************************************************************)
ConversationSteps ==
    {"schedule_message", "schedule_interval", "schedule_first", "schedule_last"}

\* C20: the job registered at the end of a conversation carries the
\* message, the interval and the start that were entered in that same
\* conversation; a /cancel in one chat leaves the stored fields of the
\* conversation of the other chat as they were; and no step of a
\* conversation fails.
C20_ConversationsApart ==
    /\ [][\A c \in Chats : \A j \in job_queue' \ job_queue :
            (IsGreeting(j) /\ j.callback.chat_id = c)
            => /\ {MESSAGE, INTERVAL, FIRST} \subseteq DOMAIN entered[c]
               /\ j.context[MESSAGE] = entered[c][MESSAGE]
               /\ j.callback.message = entered[c][MESSAGE]
               /\ j.context[INTERVAL] = entered[c][INTERVAL]
               /\ j.interval = TriggerInterval(entered[c][INTERVAL])
               /\ j.context[FIRST] = IF entered[c][FIRST] = None THEN <<now>>
                                     ELSE entered[c][FIRST]]_vars
    /\ [][\A c \in Chats : \A d \in Chats \ {c} :
            (conv[d] # END /\ schedule_cancel(c))
            => \A k \in DOMAIN entered[d] \cap DOMAIN user_data :
                    k \in DOMAIN user_data' /\ user_data'[k] = user_data[k]]_vars
    /\ [][(last' # last /\ last'.op \in ConversationSteps)
            => last'.error = "none"]_vars

(***************************************************************************)
(* The claims about the queue shared by the chats, read against SpecShared *)
(* and SpecListing.                                                        *)
(***************************************************************************)
\* The greeting jobs of the queue q that were registered for chat c
greetings_of(q, c) ==
    {j.id : j \in {x \in q : ~x.removed /\ IsGreeting(x) /\ x.callback.chat_id = c}}

\* C21: a cancel reply sent in chat c removes no greeting job that was
\* registered for another chat, whatever the message it replies to.
C21_CancelStaysInChat ==
    [][\A c \in Chats : \A m \in SharedReplies(c) :
        handle_schedule_cancel(c, m)
        => \A d \in Chats \ {c} :
                greetings_of(job_queue, d) \subseteq greetings_of(job_queue', d)]_vars

\* C22: get_scheduled_messages never takes a countdown ticket as a job of
\* the chat, and never fails while it builds the detail messages.
C22_ListsGreetingsOnly ==
    [][\A c \in SpecChats :
        get_scheduled_messages(c)
        => /\ \A j \in chat_jobs(c) : IsGreeting(j)
           /\ last'.error = "none"]_vars

\* The time_left of the tickets of the queue q that rewrite the detail
\* message k
time_left_of(q, k) == {t.context.time_left : t \in tickets_of(q, k)}

\* C23: a cancel reply marks no ticket but the ticket of the detail message
\* it replies to: the tickets of every other detail message, of the same
\* chat or of another, keep their time_left, and no other detail message
\* becomes marked.
C23_MarksOwnTicketOnly ==
    [][\A c \in Chats : \A m \in DetailReplies(c) :
        handle_schedule_cancel(c, m)
        => \A k \in DOMAIN messages \ {<<c, m.message_id>>} :
                /\ messages'[k].marked = messages[k].marked
                /\ tickets_of(job_queue, k) # {}
                   => time_left_of(job_queue', k) = time_left_of(job_queue, k)]_vars

(***************************************************************************)
(* The claim about the registrations, read against Spec.                   *)
(***************************************************************************)
\* The chats whose conversation reaches its end (Done) in the step: the
\* state LAST is left by schedule_last.  (A /cancel leaves it too, and is
\* no Done.)
ReachDone ==
    {c \in Chats : /\ conv[c] = LAST
                   /\ conv'[c] = END
                   /\ last' # last
                   /\ last'.op = "schedule_last"
                   /\ last'.chat = c}

\* The numbers of the greeting jobs of the queue q
GreetingNumbers(q) == {j.id : j \in {x \in q : IsGreeting(x)}}

\* C24: a step registers one greeting job for each conversation that
\* reaches Done in it, and none otherwise: the count of registrations grows
\* by one, and one new greeting job enters the queue, exactly in the steps
\* in which a conversation reaches Done.  The count is 0 at first, so the
\* number of greeting jobs ever registered is the number of conversations
\* that reached Done.
C24_OneJobPerDone ==
    [][/\ GreetingsRegistered' = GreetingsRegistered + Cardinality(ReachDone)
       /\ Cardinality(GreetingNumbers(job_queue') \ GreetingNumbers(job_queue))
            = Cardinality(ReachDone)]_vars

\* A conversation has reached Done and its job is registered
C24_Witness ==
    /\ last.op = "schedule_last"
    /\ last.ret = END
    /\ conv[last.chat] = END
    /\ GreetingsRegistered = 1
    /\ \E j \in job_queue : IsGreeting(j) /\ j.callback.chat_id = last.chat

=============================================================================
